---- MODULE Spec2Model ----
(***************************************************************************)
(* Model of the task store of streamlit_app.py (class TodoApp): the        *)
(* session's list of todos, the JSON file behind it, and the store         *)
(* operations add_todo, complete_todo, delete_todo, update_priority,       *)
(* clear_completed and get_stats.                                          *)
(*                                                                         *)
(* A task description is a sequence of characters, so that str.strip() is  *)
(* computed and not assumed.  A todo is a record (a Python dict): the key  *)
(* "completed_at" is absent until complete_todo adds it.                   *)
(***************************************************************************)
EXTENDS Integers, Sequences, FiniteSets, TLC

\* ---- bounds of the model ----
MaxTodos == 2        \* most todos held at once
MaxId == 3           \* greatest id add_todo may hand out
MaxClock == 1        \* last second the clock reaches
MaxFailures == 1     \* most writes that fail in a run of SpecIO

\* ---- values of the program ----
Whitespace == {" "}
PriorityList == <<"High", "Medium", "Low">>
Priorities == {PriorityList[i] : i \in 1..Len(PriorityList)}
CategoryList == <<"Personal", "Work", "Health", "Learning", "Shopping", "Other">>
Categories == {CategoryList[i] : i \in 1..Len(CategoryList)}
\* the categories chosen in the runs
CategoryInputs == {"Personal", "Work"}
None == "None"

\* descriptions typed in: empty, blank, and one with blanks around its text
TaskInputs == {<<>>, <<" ">>, <<" ", "a", " ">>}
IdInputs == 0..MaxId
\* the filters chosen in the runs: everything (the default), a part, nothing
PriorityFilters == {Priorities, {"High", "Medium"}, {"Low"}}
CategoryFilters == {Categories, {"Work"}, {}}
\* outcomes of the write in save_todos: it succeeds, open() raises and the
\* file is left as it was, or json.dump raises after open() emptied the file
AllWriteOutcomes == {"ok", "open_fails", "dump_fails"}
\* the outcomes in the runs of Spec: the write succeeds
\* (save_todos and save_msgs give every outcome; the actions take the outcome)
WriteOutcomes == {"ok"}

VARIABLES todos, file, now, op, msgs, wrote, ret, high_id, has_todos, failures

vars == <<todos, file, now, op, msgs, wrote, ret, high_id, has_todos, failures>>

\* ---- pure helpers ----
RECURSIVE lstrip(_)
lstrip(s) ==
    IF s = <<>> THEN s
    ELSE IF Head(s) \in Whitespace THEN lstrip(Tail(s)) ELSE s

RECURSIVE rstrip(_)
rstrip(s) ==
    IF s = <<>> THEN s
    ELSE IF s[Len(s)] \in Whitespace THEN rstrip(SubSeq(s, 1, Len(s) - 1)) ELSE s

strip(s) == rstrip(lstrip(s))

\* datetime.now().strftime("%Y-%m-%d %H:%M:%S"): the stamp names the second t
strftime(t) == <<"%Y-%m-%d %H:%M:%S", t>>

RECURSIVE SeqMax(_, _)
SeqMax(s, default) ==
    IF s = <<>> THEN default
    ELSE LET m == SeqMax(Tail(s), default)
         IN IF s = <<Head(s)>> THEN Head(s)
            ELSE IF Head(s) > m THEN Head(s) ELSE m

\* max([todo.get('id', 0) for todo in todos], default=0)
max_id(ts) ==
    SeqMax([i \in 1..Len(ts) |-> IF "id" \in DOMAIN ts[i] THEN ts[i].id ELSE 0], 0)

\* mutant: the id is taken from the number of todos
next_id_by_count(ts) == Len(ts) + 1

next_id(ts) == max_id(ts) + 1

\* mutant: the description is tested without trimming it
is_blank_untrimmed(task) == task = <<>>

\* `not task.strip()`
is_blank(task) == strip(task) = <<>>

\* mutant: the new id is the greatest id, not one more
new_todo_same_id(ts, task, priority, category, t) ==
    [id |-> max_id(ts),
     task |-> strip(task),
     completed |-> FALSE,
     priority |-> priority,
     category |-> category,
     created_at |-> strftime(t),
     due_date |-> None]

\* mutant: the description is stored as typed
new_todo_untrimmed(ts, task, priority, category, t) ==
    [id |-> max_id(ts) + 1,
     task |-> task,
     completed |-> FALSE,
     priority |-> priority,
     category |-> category,
     created_at |-> strftime(t),
     due_date |-> None]

new_todo(ts, task, priority, category, t) ==
    [id |-> next_id(ts),
     task |-> strip(task),
     completed |-> FALSE,
     priority |-> priority,
     category |-> category,
     created_at |-> strftime(t),
     due_date |-> None]

\* todo[key] = value on a dict: the key is added when it is not there yet
DictSet(d, key, value) ==
    [k \in DOMAIN d \cup {key} |-> IF k = key THEN value ELSE d[k]]

\* mutant: completing stamps created_at as well
mark_completed_restamp(todo, t) ==
    DictSet(DictSet(DictSet(todo, "completed", TRUE), "completed_at", strftime(t)),
            "created_at", strftime(t))

\* mutant: completing sets the flag and no stamp
mark_completed_nostamp(todo, t) == DictSet(todo, "completed", TRUE)

mark_completed(todo, t) ==
    DictSet(DictSet(todo, "completed", TRUE), "completed_at", strftime(t))

\* mutant: a todo whose priority is set is pending again
set_priority_reopen(todo, priority) ==
    DictSet(DictSet(todo, "priority", priority), "completed", FALSE)

set_priority(todo, priority) == DictSet(todo, "priority", priority)

\* index of the first todo with the given id, 0 when there is none
RECURSIVE FindFrom(_, _, _)
FindFrom(ts, task_id, i) ==
    IF i > Len(ts) THEN 0
    ELSE IF ts[i].id = task_id THEN i
    ELSE FindFrom(ts, task_id, i + 1)

\* mutant: the search stops at the first todo once the id is in the list
find_todo_first(ts, task_id) == IF FindFrom(ts, task_id, 1) = 0 THEN 0 ELSE 1

find_todo(ts, task_id) == FindFrom(ts, task_id, 1)

\* [t for t in todos if ...]: the matching todos, in their order
\* mutant: the todo at position task_id is dropped, not the one with that id
without_id_by_index(ts, task_id) ==
    IF task_id \in 1..Len(ts)
    THEN SubSeq(ts, 1, task_id - 1) \o SubSeq(ts, task_id + 1, Len(ts))
    ELSE ts

without_id(ts, task_id) == LET keep(t) == t.id # task_id IN SelectSeq(ts, keep)
only_completed(ts) == LET keep(t) == t.completed IN SelectSeq(ts, keep)
\* mutant: only the first completed todo is dropped
not_completed_first(ts) ==
    LET done == {i \in 1..Len(ts) : ts[i].completed}
        first == CHOOSE i \in done : \A j \in done : i <= j
    IN IF done = {} THEN ts
       ELSE SubSeq(ts, 1, first - 1) \o SubSeq(ts, first + 1, Len(ts))

not_completed(ts) == LET keep(t) == ~t.completed IN SelectSeq(ts, keep)

\* dict.get(key, default)
DictGet(d, key, default) == IF key \in DOMAIN d THEN d[key] ELSE default

\* mutant: the loop counts the completed todos too
RECURSIVE count_all(_, _, _)
count_all(ts, priority_counts, category_counts) ==
    IF ts = <<>> THEN <<priority_counts, category_counts>>
    ELSE LET todo == Head(ts)
             category == DictGet(todo, "category", "Personal")
         IN count_all(Tail(ts),
                [priority_counts EXCEPT ![todo.priority] = @ + 1],
                DictSet(category_counts, category,
                        DictGet(category_counts, category, 0) + 1))

\* the loop of get_stats over the todos, carrying the two count maps
RECURSIVE count_pending(_, _, _)
count_pending(ts, priority_counts, category_counts) ==
    IF ts = <<>> THEN <<priority_counts, category_counts>>
    ELSE LET todo == Head(ts)
             category == DictGet(todo, "category", "Personal")
         IN IF ~todo.completed
            THEN count_pending(Tail(ts),
                     [priority_counts EXCEPT ![todo.priority] = @ + 1],
                     DictSet(category_counts, category,
                             DictGet(category_counts, category, 0) + 1))
            ELSE count_pending(Tail(ts), priority_counts, category_counts)

stats(ts) ==
    LET total == Len(ts)
        completed == Len(only_completed(ts))
        pending == total - completed
        counts == count_pending(ts, [High |-> 0, Medium |-> 0, Low |-> 0], <<>>)
    IN [kind |-> "stats",
        total |-> total,
        completed |-> completed,
        pending |-> pending,
        priority_counts |-> counts[1],
        category_counts |-> counts[2]]

\* ---- the task list of the page ----
\* mutant: the category filter is not applied
filtered_todos_any_category(ts, show_completed, filter_priority, filter_category) ==
    LET keep(todo) ==
            /\ ~(~show_completed /\ todo.completed)
            /\ todo.priority \in filter_priority
    IN SelectSeq(ts, keep)

\* the loop that fills filtered_todos: a todo is skipped when a filter rejects it
filtered_todos(ts, show_completed, filter_priority, filter_category) ==
    LET keep(todo) ==
            /\ ~(~show_completed /\ todo.completed)
            /\ todo.priority \in filter_priority
            /\ DictGet(todo, "category", "Personal") \in filter_category
    IN SelectSeq(ts, keep)

priority_order == [High |-> 0, Medium |-> 1, Low |-> 2]

\* key=lambda x: (x["completed"], priority_order.get(x["priority"], 1))
sort_key(x) ==
    <<IF x.completed THEN 1 ELSE 0, DictGet(priority_order, x.priority, 1)>>

\* comparison of two key tuples, as Python compares tuples
key_less(a, b) == a[1] < b[1] \/ (a[1] = b[1] /\ a[2] < b[2])

\* mutant: x goes before the entries whose key equals its key
RECURSIVE insert_before_equal(_, _)
insert_before_equal(sorted, x) ==
    IF sorted = <<>> THEN <<x>>
    ELSE IF ~key_less(sort_key(Head(sorted)), sort_key(x))
         THEN <<x>> \o sorted
         ELSE <<Head(sorted)>> \o insert_before_equal(Tail(sorted), x)

\* x put into a sorted list, after the entries whose key is not greater
RECURSIVE insert_by_key(_, _)
insert_by_key(sorted, x) ==
    IF sorted = <<>> THEN <<x>>
    ELSE IF key_less(sort_key(x), sort_key(Head(sorted)))
         THEN <<x>> \o sorted
         ELSE <<Head(sorted)>> \o insert_by_key(Tail(sorted), x)

\* list.sort(key=...): a stable sort, the entries taken in their order
RECURSIVE sort_from(_, _)
sort_from(sorted, rest) ==
    IF rest = <<>> THEN sorted
    ELSE sort_from(insert_by_key(sorted, Head(rest)), Tail(rest))

sort_todos(ts) == sort_from(<<>>, ts)

\* ---- the CSV export ----
\* the keys of a todo in the order add_todo and complete_todo put them in
FieldOrder ==
    <<"id", "task", "completed", "priority", "category", "created_at",
      "due_date", "completed_at">>

\* pd.DataFrame(todos): one column for each key that some todo has
csv_columns(ts) ==
    LET has(k) == \E i \in 1..Len(ts) : k \in DOMAIN ts[i]
    IN SelectSeq(FieldOrder, has)

\* a cell of to_csv: empty for a missing key and for None
csv_cell(todo, k) ==
    IF k \notin DOMAIN todo \/ k = "due_date" THEN <<"empty">>
    ELSE <<"value", todo[k]>>

\* df.to_csv(index=False): the header line and one line for each todo
to_csv(ts) ==
    LET columns == csv_columns(ts)
    IN [kind |-> "csv",
        header |-> columns,
        rows |-> [i \in 1..Len(ts) |->
                    [c \in 1..Len(columns) |-> csv_cell(ts[i], columns[c])]]]

\* ---- the JSON file ----
\* json.dump writes each dict as an object of key/value members; a value is
\* written as a JSON literal: null, true/false, a number or a string
json_value(key, v) ==
    CASE key = "due_date" -> "null"
      [] key = "completed" -> IF v THEN "true" ELSE "false"
      [] key = "id" -> <<"number", v>>
      [] OTHER -> <<"string", v>>

\* mutant: the members whose value is null are left out of the file
json_dump_skip_null(ts) ==
    [i \in 1..Len(ts) |->
        {<<k, json_value(k, ts[i][k])>> : k \in DOMAIN ts[i] \ {"due_date"}}]

json_dump(ts) ==
    [i \in 1..Len(ts) |-> {<<k, json_value(k, ts[i][k])>> : k \in DOMAIN ts[i]}]

python_value(key, j) ==
    CASE key = "due_date" -> None
      [] key = "completed" -> (j = "true")
      [] OTHER -> j[2]

json_load(content) ==
    [i \in 1..Len(content) |->
        [k \in {m[1] : m \in content[i]} |->
            python_value(k, (CHOOSE m \in content[i] : m[1] = k)[2])]]

\* the file: whether it is there, whether its text parses as JSON, and the
\* JSON value it holds when it does
NoFile == [exists |-> FALSE, valid |-> FALSE, content |-> <<>>]
BadFile == [exists |-> TRUE, valid |-> FALSE, content |-> <<>>]
JsonFile(content) == [exists |-> TRUE, valid |-> TRUE, content |-> content]

\* load_todos: the empty list when the file is not there, and when reading
\* raises IOError (can_read false) or parsing raises JSONDecodeError
load_todos(f, can_read) ==
    IF f.exists /\ can_read /\ f.valid THEN json_load(f.content) ELSE <<>>

load_msgs(f, can_read) ==
    IF f.exists /\ ~(can_read /\ f.valid)
    THEN <<<<"warning", "Could not load">>>> ELSE <<>>

\* save_todos: the file is overwritten, or the write fails and an error is shown
save_todos(ts, f, outcome) ==
    CASE outcome = "ok" -> JsonFile(json_dump(ts))
      [] outcome = "open_fails" -> f
      [] outcome = "dump_fails" -> BadFile

save_msgs(outcome) ==
    IF outcome = "ok" THEN <<>> ELSE <<<<"error", "Could not save">>>>

\* whether save_todos changed the file on disk
file_written(outcome) == outcome # "open_fails"

save_failures(outcome) == IF outcome = "ok" THEN 0 ELSE 1

NoRet == [kind |-> "none"]

\* ---- state machine ----
Init ==
    /\ file = NoFile
    /\ todos = load_todos(NoFile, TRUE)
    /\ now = 0
    /\ op = "init"
    /\ msgs = <<>>
    /\ wrote = FALSE
    /\ ret = NoRet
    /\ high_id = 0
    /\ has_todos = TRUE
    /\ failures = 0

\* mutant: a new todo is taken back when its save fails
add_todo_rollback(task, priority, category, t, outcome) ==
    /\ now' = IF is_blank(task) THEN now ELSE t
    /\ has_todos /\ UNCHANGED has_todos
    /\ op' = "add_todo"
    /\ ret' = NoRet
    /\ IF is_blank(task)
       THEN /\ msgs' = <<<<"error", "Task cannot be empty.">>>>
            /\ wrote' = FALSE
            /\ UNCHANGED failures
            /\ UNCHANGED <<todos, file, high_id>>
       ELSE /\ Len(todos) < MaxTodos
            /\ next_id(todos) <= MaxId
            /\ todos' = IF outcome = "ok"
                        THEN Append(todos, new_todo(todos, task, priority, category, t))
                        ELSE todos
            /\ file' = save_todos(
                           Append(todos, new_todo(todos, task, priority, category, t)),
                           file, outcome)
            /\ wrote' = file_written(outcome)
            /\ failures' = failures + save_failures(outcome)
            /\ msgs' = save_msgs(outcome) \o <<<<"success", "Added task">>>>
            /\ high_id' = IF next_id(todos) > high_id THEN next_id(todos) ELSE high_id

\* t is the clock's reading when the call reads it; now keeps the last reading
add_todo(task, priority, category, t, outcome) ==
    /\ now' = IF is_blank(task) THEN now ELSE t
    /\ has_todos /\ UNCHANGED has_todos
    /\ op' = "add_todo"
    /\ ret' = NoRet
    /\ IF is_blank(task)
       THEN /\ msgs' = <<<<"error", "Task cannot be empty.">>>>
            /\ wrote' = FALSE
            /\ UNCHANGED failures
            /\ UNCHANGED <<todos, file, high_id>>
       ELSE /\ Len(todos) < MaxTodos
            /\ next_id(todos) <= MaxId
            /\ todos' = Append(todos, new_todo(todos, task, priority, category, t))
            /\ file' = save_todos(todos', file, outcome)
            /\ wrote' = file_written(outcome)
            /\ failures' = failures + save_failures(outcome)
            /\ msgs' = save_msgs(outcome) \o <<<<"success", "Added task">>>>
            /\ high_id' = IF next_id(todos) > high_id THEN next_id(todos) ELSE high_id

complete_todo(task_id, t, outcome) ==
    LET i == find_todo(todos, task_id) IN
    /\ now' = IF i = 0 THEN now ELSE t
    /\ has_todos /\ UNCHANGED has_todos
    /\ op' = "complete_todo"
    /\ ret' = NoRet
    /\ UNCHANGED high_id
    /\ IF i = 0
       THEN /\ msgs' = <<>>
            /\ wrote' = FALSE
            /\ UNCHANGED failures
            /\ UNCHANGED <<todos, file>>
       ELSE /\ todos' = [todos EXCEPT ![i] = mark_completed(todos[i], t)]
            /\ file' = save_todos(todos', file, outcome)
            /\ wrote' = file_written(outcome)
            /\ failures' = failures + save_failures(outcome)
            /\ msgs' = save_msgs(outcome) \o <<<<"success", "Completed task">>>>

\* mutant: the list is loaded on every construction
TodoApp_init_always_loads(can_read) ==
    /\ op' = "__init__"
    /\ has_todos' = TRUE
    /\ todos' = load_todos(file, can_read)
    /\ msgs' = load_msgs(file, can_read)
    /\ ret' = [kind |-> "loaded"]
    /\ wrote' = FALSE
    /\ UNCHANGED <<file, now, high_id, failures>>

\* TodoApp(): the list is loaded when the session holds none
TodoApp_init(can_read) ==
    /\ op' = "__init__"
    /\ has_todos' = TRUE
    /\ IF ~has_todos
       THEN /\ todos' = load_todos(file, can_read)
            /\ msgs' = load_msgs(file, can_read)
            /\ ret' = [kind |-> "loaded"]
       ELSE /\ msgs' = <<>>
            /\ ret' = NoRet
            /\ UNCHANGED todos
    /\ wrote' = FALSE
    /\ UNCHANGED failures
    /\ UNCHANGED <<file, now, high_id>>

\* a new browser session: its session state holds nothing yet
new_session ==
    /\ has_todos
    /\ has_todos' = FALSE
    /\ todos' = <<>>
    /\ op' = "new_session"
    /\ msgs' = <<>>
    /\ ret' = NoRet
    /\ wrote' = FALSE
    /\ UNCHANGED failures
    /\ UNCHANGED <<file, now, high_id>>

\* mutant: delete saves whether or not a todo was removed
delete_todo_always_saves(task_id, outcome) ==
    /\ UNCHANGED <<now, high_id>>
    /\ has_todos /\ UNCHANGED has_todos
    /\ op' = "delete_todo"
    /\ ret' = NoRet
    /\ todos' = without_id(todos, task_id)
    /\ file' = save_todos(todos', file, outcome)
    /\ wrote' = file_written(outcome)
    /\ failures' = failures + save_failures(outcome)
    /\ msgs' = save_msgs(outcome) \o <<<<"success", "Task deleted successfully!">>>>

delete_todo(task_id, outcome) ==
    LET original_count == Len(todos)
        remaining == without_id(todos, task_id) IN
    /\ UNCHANGED now
    /\ has_todos /\ UNCHANGED has_todos
    /\ op' = "delete_todo"
    /\ ret' = NoRet
    /\ UNCHANGED high_id
    /\ todos' = remaining
    /\ IF Len(remaining) < original_count
       THEN /\ file' = save_todos(todos', file, outcome)
            /\ wrote' = file_written(outcome)
            /\ failures' = failures + save_failures(outcome)
            /\ msgs' = save_msgs(outcome) \o <<<<"success", "Task deleted successfully!">>>>
       ELSE /\ msgs' = <<>>
            /\ wrote' = FALSE
            /\ UNCHANGED failures
            /\ UNCHANGED file

\* mutant: the new priority is not saved
update_priority_unsaved(task_id, priority, outcome) ==
    LET i == find_todo(todos, task_id) IN
    /\ has_todos /\ UNCHANGED has_todos
    /\ op' = "update_priority"
    /\ ret' = NoRet
    /\ msgs' = <<>>
    /\ wrote' = FALSE
    /\ UNCHANGED <<now, high_id, failures, file>>
    /\ todos' = IF i = 0 THEN todos
                ELSE [todos EXCEPT ![i] = set_priority(todos[i], priority)]

update_priority(task_id, priority, outcome) ==
    LET i == find_todo(todos, task_id) IN
    /\ UNCHANGED now
    /\ has_todos /\ UNCHANGED has_todos
    /\ op' = "update_priority"
    /\ ret' = NoRet
    /\ UNCHANGED high_id
    /\ IF i = 0
       THEN /\ msgs' = <<>>
            /\ wrote' = FALSE
            /\ UNCHANGED failures
            /\ UNCHANGED <<todos, file>>
       ELSE /\ todos' = [todos EXCEPT ![i] = set_priority(todos[i], priority)]
            /\ file' = save_todos(todos', file, outcome)
            /\ wrote' = file_written(outcome)
            /\ failures' = failures + save_failures(outcome)
            /\ msgs' = save_msgs(outcome) \o <<<<"success", "Updated priority">>>>

clear_completed(outcome) ==
    LET completed_count == Len(only_completed(todos)) IN
    /\ UNCHANGED now
    /\ has_todos /\ UNCHANGED has_todos
    /\ op' = "clear_completed"
    /\ ret' = NoRet
    /\ UNCHANGED high_id
    /\ IF completed_count = 0
       THEN /\ msgs' = <<<<"info", "No completed tasks to clear.">>>>
            /\ wrote' = FALSE
            /\ UNCHANGED failures
            /\ UNCHANGED <<todos, file>>
       ELSE /\ todos' = not_completed(todos)
            /\ file' = save_todos(todos', file, outcome)
            /\ wrote' = file_written(outcome)
            /\ failures' = failures + save_failures(outcome)
            /\ msgs' = save_msgs(outcome) \o <<<<"success", "Cleared", completed_count>>>>

get_stats ==
    /\ UNCHANGED now
    /\ has_todos /\ UNCHANGED has_todos
    /\ op' = "get_stats"
    /\ ret' = stats(todos)
    /\ msgs' = <<>>
    /\ wrote' = FALSE
    /\ UNCHANGED failures
    /\ UNCHANGED <<todos, file, high_id>>

\* mutant: the session's list itself is sorted for the page
filtered_sorted_in_place(show_completed, filter_priority, filter_category) ==
    /\ has_todos /\ UNCHANGED has_todos
    /\ op' = "filtered_sorted"
    /\ todos' = sort_todos(todos)
    /\ ret' = [kind |-> "view",
               todos |-> sort_todos(filtered_todos(
                   todos, show_completed, filter_priority, filter_category))]
    /\ msgs' = <<>>
    /\ wrote' = FALSE
    /\ UNCHANGED <<file, now, high_id, failures>>

\* the page's task list: the todos the filters let through, sorted
filtered_sorted(show_completed, filter_priority, filter_category) ==
    /\ has_todos /\ UNCHANGED has_todos
    /\ op' = "filtered_sorted"
    /\ ret' = [kind |-> "view",
               todos |-> sort_todos(filtered_todos(
                   todos, show_completed, filter_priority, filter_category))]
    /\ msgs' = <<>>
    /\ wrote' = FALSE
    /\ UNCHANGED failures
    /\ UNCHANGED <<todos, file, now, high_id>>

\* the export: offered when the list is not empty
export_csv ==
    /\ has_todos /\ UNCHANGED has_todos
    /\ todos # <<>>
    /\ op' = "export_csv"
    /\ ret' = to_csv(todos)
    /\ msgs' = <<>>
    /\ wrote' = FALSE
    /\ UNCHANGED failures
    /\ UNCHANGED <<todos, file, now, high_id>>

Next ==
    \/ \E task \in TaskInputs, p \in Priorities, c \in CategoryInputs,
          t \in now..MaxClock, outcome \in WriteOutcomes : add_todo(task, p, c, t, outcome)
    \/ \E task_id \in IdInputs, t \in now..MaxClock, outcome \in WriteOutcomes :
          complete_todo(task_id, t, outcome)
    \/ \E task_id \in IdInputs, outcome \in WriteOutcomes : delete_todo(task_id, outcome)
    \/ \E task_id \in IdInputs, p \in Priorities, outcome \in WriteOutcomes :
          update_priority(task_id, p, outcome)
    \/ \E outcome \in WriteOutcomes : clear_completed(outcome)
    \/ get_stats

Spec == Init /\ [][Next]_vars

\* the store operations together with what the page reads from the store
NextView ==
    \/ \E task \in TaskInputs, p \in Priorities, c \in CategoryInputs,
          t \in now..MaxClock, outcome \in WriteOutcomes :
          add_todo(task, p, c, t, outcome)
    \/ \E task_id \in IdInputs, t \in now..MaxClock, outcome \in WriteOutcomes :
          complete_todo(task_id, t, outcome)
    \/ \E task_id \in IdInputs, outcome \in WriteOutcomes : delete_todo(task_id, outcome)
    \/ \E task_id \in IdInputs, p \in Priorities, outcome \in WriteOutcomes :
          update_priority(task_id, p, outcome)
    \/ \E outcome \in WriteOutcomes : clear_completed(outcome)
    \/ get_stats
    \/ \E show_completed \in BOOLEAN, filter_priority \in PriorityFilters,
          filter_category \in CategoryFilters :
          filtered_sorted(show_completed, filter_priority, filter_category)
    \/ export_csv

SpecView == Init /\ [][NextView]_vars

\* the files a session may find when it starts: none, one that does not
\* parse, one that holds the empty list
InitialFiles == {NoFile, BadFile, JsonFile(<<>>)}

InitLoad ==
    /\ file \in InitialFiles
    /\ todos = <<>>
    /\ has_todos = FALSE
    /\ now = 0
    /\ op = "start"
    /\ msgs = <<>>
    /\ wrote = FALSE
    /\ ret = NoRet
    /\ high_id = 0
    /\ failures = 0

\* sessions that load the file, work on the list and end; no write fails
NextLoad ==
    \/ \E can_read \in BOOLEAN : TodoApp_init(can_read)
    \/ new_session
    \/ \E task \in TaskInputs, p \in Priorities, c \in CategoryInputs,
          t \in now..MaxClock, outcome \in WriteOutcomes :
          add_todo(task, p, c, t, outcome)
    \/ \E task_id \in IdInputs, t \in now..MaxClock, outcome \in WriteOutcomes :
          complete_todo(task_id, t, outcome)
    \/ \E task_id \in IdInputs, outcome \in WriteOutcomes : delete_todo(task_id, outcome)
    \/ \E task_id \in IdInputs, p \in Priorities, outcome \in WriteOutcomes :
          update_priority(task_id, p, outcome)
    \/ \E outcome \in WriteOutcomes : clear_completed(outcome)

SpecLoad == InitLoad /\ [][NextLoad]_vars

\* what a save may do: a write fails at most MaxFailures times in a run
IOOutcomes == IF failures < MaxFailures THEN AllWriteOutcomes ELSE WriteOutcomes

\* the store operations when the file cannot always be written
NextIO ==
    \/ \E task \in TaskInputs, p \in Priorities, c \in CategoryInputs,
          t \in now..MaxClock, outcome \in IOOutcomes :
          add_todo(task, p, c, t, outcome)
    \/ \E task_id \in IdInputs, t \in now..MaxClock, outcome \in IOOutcomes :
          complete_todo(task_id, t, outcome)
    \/ \E task_id \in IdInputs, outcome \in IOOutcomes : delete_todo(task_id, outcome)
    \/ \E task_id \in IdInputs, p \in Priorities, outcome \in IOOutcomes :
          update_priority(task_id, p, outcome)
    \/ \E outcome \in IOOutcomes : clear_completed(outcome)
    \/ get_stats

SpecIO == Init /\ [][NextIO]_vars

\* ---- vocabulary of the properties ----
Ids(ts) == {ts[i].id : i \in 1..Len(ts)}
HasId(ts, task_id) == \E i \in 1..Len(ts) : ts[i].id = task_id
IsBlank(s) == \A i \in 1..Len(s) : s[i] \in Whitespace
\* r is s without the whitespace at its two ends
IsTrimOf(r, s) ==
    \E i \in 1..Len(s), j \in 1..Len(s) :
        /\ i <= j
        /\ r = SubSeq(s, i, j)
        /\ s[i] \notin Whitespace /\ s[j] \notin Whitespace
        /\ \A k \in 1..Len(s) : (k < i \/ k > j) => s[k] \in Whitespace
Reported(kind) == \E i \in 1..Len(msgs) : msgs[i][1] = kind
PendingIdx(ts) == {i \in 1..Len(ts) : ~ts[i].completed}
CompletedIdx(ts) == {i \in 1..Len(ts) : ts[i].completed}
\* rs is the subsequence of ts at the indices in keep, in the order of ts
IsSubSeqAt(rs, ts, keep) ==
    /\ Len(rs) = Cardinality(keep)
    /\ \E f \in [1..Len(rs) -> keep] :
          /\ \A a \in 1..Len(rs), b \in 1..Len(rs) : a < b => f[a] < f[b]
          /\ \A a \in 1..Len(rs) : rs[a] = ts[f[a]]
RECURSIVE SumOf(_, _)
SumOf(f, keys) ==
    IF keys = {} THEN 0
    ELSE LET k == CHOOSE x \in keys : TRUE IN f[k] + SumOf(f, keys \ {k})

\* ---- C1 ----
\* C1 as stated: every successful add hands out an id greater than every id
\* handed out before, so no id is handed out twice.
C1_IdsNeverReused ==
    [][op' = "add_todo" =>
       \A task \in TaskInputs, p \in Priorities, c \in CategoryInputs,
          outcome \in WriteOutcomes :
          (~IsBlank(task) /\ add_todo(task, p, c, now', outcome))
              => todos'[Len(todos')].id > high_id]_vars

\* C1 amended: the id handed out by a successful add is one more than the
\* greatest id in the store at that moment (1 for an empty store), hence
\* greater than every id the store holds.
C1_IdAboveStored ==
    [][op' = "add_todo" =>
       \A task \in TaskInputs, p \in Priorities, c \in CategoryInputs,
          outcome \in WriteOutcomes :
          (~IsBlank(task) /\ add_todo(task, p, c, now', outcome))
              => LET new == todos'[Len(todos')].id IN
                 /\ \A i \in Ids(todos) : new > i
                 /\ IF todos = <<>> THEN new = 1 ELSE new - 1 \in Ids(todos)]_vars

\* an add after the deletion of a task below the greatest id
C1_Witness ==
    /\ op = "add_todo" /\ Reported("success")
    /\ Len(todos) = 2 /\ todos[1].id = 2 /\ todos[2].id = 3

\* ---- C2 ----
\* C2: every id is a positive integer and no two todos share an id.
C2_IdsUniquePositive ==
    /\ \A i \in 1..Len(todos) : todos[i].id \in Nat /\ todos[i].id > 0
    /\ \A i \in 1..Len(todos), j \in 1..Len(todos) :
          i # j => todos[i].id # todos[j].id

C2_Witness ==
    /\ Len(todos) = 2 /\ high_id > todos[2].id

\* ---- C3 ----
\* C3: add with a blank description reports an error and changes neither the
\* list nor the file, and the next id stays what it was.
C3_BlankAddRejected ==
    [][op' = "add_todo" =>
       \A task \in TaskInputs, p \in Priorities, c \in CategoryInputs,
          outcome \in WriteOutcomes :
          (IsBlank(task) /\ add_todo(task, p, c, now', outcome))
              => /\ todos' = todos
                 /\ file' = file
                 /\ ~wrote'
                 /\ \E i \in 1..Len(msgs') : msgs'[i][1] = "error"
                 /\ next_id(todos') = next_id(todos)
                 /\ high_id' = high_id]_vars

C3_Witness ==
    /\ op = "add_todo" /\ Reported("error") /\ ~wrote /\ Len(todos) >= 1

\* ---- C4 ----
\* C4: add with a non-blank description appends one todo with the trimmed
\* description, completed false, no completed_at, the given priority and
\* category, and keeps the todos that were there, in their order.
C4_AddAppends ==
    [][op' = "add_todo" =>
       \A task \in TaskInputs, p \in Priorities, c \in CategoryInputs,
          outcome \in WriteOutcomes :
          (~IsBlank(task) /\ add_todo(task, p, c, now', outcome))
              => /\ Len(todos') = Len(todos) + 1
                 /\ SubSeq(todos', 1, Len(todos)) = todos
                 /\ LET new == todos'[Len(todos')] IN
                    /\ IsTrimOf(new.task, task)
                    /\ new.completed = FALSE
                    /\ "completed_at" \notin DOMAIN new
                    /\ new.priority = p
                    /\ new.category = c]_vars

C4_Witness ==
    /\ op = "add_todo" /\ Reported("success") /\ Len(todos) = 2
    /\ todos[2].task = <<"a">> /\ todos[1].completed

\* ---- C5 ----
\* C5: complete on an id of the store sets completed and adds completed_at on
\* the todo with that id; every other key of it and every other todo stay.
C5_CompleteFrame ==
    [][op' = "complete_todo" =>
       \A task_id \in IdInputs, outcome \in WriteOutcomes :
          (HasId(todos, task_id) /\ complete_todo(task_id, now', outcome))
              => /\ Len(todos') = Len(todos)
                 /\ \A i \in 1..Len(todos) :
                       IF todos[i].id = task_id
                       THEN /\ todos'[i].completed = TRUE
                            /\ "completed_at" \in DOMAIN todos'[i]
                            /\ todos'[i].completed_at # <<>>
                            /\ DOMAIN todos'[i] = DOMAIN todos[i] \cup {"completed_at"}
                            /\ \A k \in DOMAIN todos[i] \ {"completed", "completed_at"} :
                                  todos'[i][k] = todos[i][k]
                       ELSE todos'[i] = todos[i]]_vars

C5_Witness ==
    /\ op = "complete_todo" /\ Reported("success") /\ Len(todos) = 2
    /\ todos[1].completed /\ ~todos[2].completed
    /\ todos[1].created_at # todos[1].completed_at

\* ---- C6 ----
\* C6: complete on a todo that is already completed changes neither the list
\* (its completed_at included) nor the file.
C6_CompleteIdempotent ==
    [][op' = "complete_todo" =>
       \A task_id \in IdInputs, outcome \in WriteOutcomes :
          (/\ \E i \in 1..Len(todos) : todos[i].id = task_id /\ todos[i].completed
           /\ complete_todo(task_id, now', outcome))
              => todos' = todos /\ file' = file]_vars

\* ---- C7 ----
\* C7: a todo has the key completed_at exactly when its completed flag is true.
C7_CompletedAtIffCompleted ==
    \A i \in 1..Len(todos) :
        ("completed_at" \in DOMAIN todos[i]) <=> (todos[i].completed = TRUE)

C7_Witness ==
    /\ Len(todos) = 2
    /\ todos[1].completed /\ "completed_at" \in DOMAIN todos[1]
    /\ ~todos[2].completed /\ "completed_at" \notin DOMAIN todos[2]

\* ---- C8 ----
\* C8: complete, delete and update_priority with an id that no todo has show
\* no message, leave the list as it is and do not write the file.
C8_MissingIdNoOp ==
    [][op' \in {"complete_todo", "delete_todo", "update_priority"} =>
       \A task_id \in IdInputs, outcome \in WriteOutcomes :
          (/\ ~HasId(todos, task_id)
           /\ \/ complete_todo(task_id, now', outcome)
              \/ delete_todo(task_id, outcome)
              \/ \E p \in Priorities : update_priority(task_id, p, outcome))
              => /\ todos' = todos
                 /\ file' = file
                 /\ ~wrote'
                 /\ msgs' = <<>>]_vars

C8_Witness ==
    /\ op = "delete_todo" /\ msgs = <<>> /\ ~wrote /\ Len(todos) = 2

C10_Stats ==
    op = "get_stats" =>
        /\ ret.total = Len(todos)
        /\ ret.completed = Cardinality(CompletedIdx(todos))
        /\ ret.pending = ret.total - ret.completed
        /\ DOMAIN ret.priority_counts = Priorities
        /\ \A p \in Priorities :
              ret.priority_counts[p] =
                  Cardinality({i \in PendingIdx(todos) : todos[i].priority = p})
        /\ DOMAIN ret.category_counts =
              {todos[i].category : i \in PendingIdx(todos)}
        /\ \A c \in DOMAIN ret.category_counts :
              ret.category_counts[c] =
                  Cardinality({i \in PendingIdx(todos) : todos[i].category = c})
        /\ SumOf(ret.priority_counts, DOMAIN ret.priority_counts) = ret.pending
        /\ SumOf(ret.category_counts, DOMAIN ret.category_counts) = ret.pending

C10_Witness ==
    /\ op = "get_stats" /\ ret.pending = 1 /\ ret.completed = 1
    /\ ret.priority_counts["Low"] = 1 /\ ret.priority_counts["High"] = 0
    /\ DOMAIN ret.category_counts = {"Work"}

\* ---- C11 ----
Matches(todo, show_completed, filter_priority, filter_category) ==
    /\ todo.priority \in filter_priority
    /\ todo.category \in filter_category
    /\ ~show_completed => ~todo.completed
InSeq(x, xs) == \E j \in 1..Len(xs) : xs[j] = x

\* C11: the page's task list holds exactly the todos of the store whose
\* priority and category are allowed and which are pending when completed
\* todos are not shown: each of them once, and no other todo.
C11_FilterExact ==
    [][op' = "filtered_sorted" =>
       \A show_completed \in BOOLEAN, filter_priority \in PriorityFilters,
          filter_category \in CategoryFilters :
          filtered_sorted(show_completed, filter_priority, filter_category)
              => LET view == ret'.todos
                     matching == {i \in 1..Len(todos) :
                         Matches(todos[i], show_completed, filter_priority,
                                 filter_category)}
                 IN /\ \A i \in 1..Len(todos) :
                          InSeq(todos[i], view) <=> i \in matching
                    /\ \A j \in 1..Len(view) : InSeq(view[j], todos)
                    /\ Len(view) = Cardinality(matching)]_vars

C11_Witness ==
    /\ op = "filtered_sorted" /\ Len(todos) = 2 /\ Len(ret.todos) = 1
    /\ ret.todos[1] = todos[2]
    /\ todos[1].priority = todos[2].priority
    /\ todos[1].completed = todos[2].completed

\* ---- C12 ----
Rank(priority) == CASE priority = "High" -> 0 [] priority = "Medium" -> 1 [] priority = "Low" -> 2
PosOf(x, xs) == CHOOSE i \in 1..Len(xs) : xs[i] = x

\* C12: in the page's task list every pending todo comes before every
\* completed one, within each of the two groups High comes before Medium
\* before Low, and todos of one group and one priority keep the order they
\* have in the store.
C12_SortOrder ==
    op = "filtered_sorted" =>
        LET view == ret.todos IN
        \A a \in 1..Len(view), b \in 1..Len(view) :
            a < b =>
                /\ view[a].completed => view[b].completed
                /\ view[a].completed = view[b].completed
                      => Rank(view[a].priority) <= Rank(view[b].priority)
                /\ (/\ view[a].completed = view[b].completed
                    /\ view[a].priority = view[b].priority)
                      => PosOf(view[a], todos) < PosOf(view[b], todos)

C12_Witness ==
    /\ op = "filtered_sorted" /\ Len(todos) = 2 /\ Len(ret.todos) = 2
    /\ ret.todos[1] = todos[2] /\ ret.todos[2] = todos[1]
    /\ ~todos[1].completed /\ todos[1].priority = "Low"

\* ---- C20 ----
\* C20: get_stats, the building of the page's task list and the CSV export
\* leave the list of todos and the file as they are and write nothing.
C20_ReadOnly ==
    [][op' \in {"get_stats", "filtered_sorted", "export_csv"} =>
          /\ todos' = todos
          /\ file' = file
          /\ ~wrote']_vars

C20_Witness ==
    /\ op = "filtered_sorted" /\ Len(todos) = 2 /\ Len(ret.todos) = 2
    /\ ret.todos # todos

\* ---- C17 ----
\* C17: a completed todo is completed after every step in which it stays in
\* the list, and only delete_todo and clear_completed take it out.
C17_CompletionOneWay ==
    [][\A i \in 1..Len(todos) :
          todos[i].completed =>
              /\ \A j \in 1..Len(todos') :
                    todos'[j].id = todos[i].id => todos'[j].completed
              /\ op' \notin {"delete_todo", "clear_completed"}
                    => HasId(todos', todos[i].id)]_vars

C17_Witness ==
    /\ op = "update_priority" /\ Reported("success")
    /\ Len(todos) = 1 /\ todos[1].completed /\ todos[1].priority = "Low"

C19_UpdatePriorityFrame ==
    [][op' = "update_priority" =>
       \A task_id \in IdInputs, p \in Priorities, outcome \in WriteOutcomes :
          (HasId(todos, task_id) /\ update_priority(task_id, p, outcome))
              => /\ Len(todos') = Len(todos)
                 /\ \A i \in 1..Len(todos) :
                       IF todos[i].id = task_id
                       THEN /\ todos'[i].priority = p
                            /\ DOMAIN todos'[i] = DOMAIN todos[i]
                            /\ \A k \in DOMAIN todos[i] \ {"priority"} :
                                  todos'[i][k] = todos[i][k]
                       ELSE todos'[i] = todos[i]]_vars

C19_Witness ==
    /\ op = "update_priority" /\ Reported("success") /\ Len(todos) = 2
    /\ todos[2].priority = "High" /\ todos[2].completed
    /\ todos[1].priority = "Low" /\ ~todos[1].completed

\* ---- C13 ----
UserActions ==
    {"add_todo", "complete_todo", "delete_todo", "update_priority", "clear_completed"}
\* the file holds the list ts; no file stands for the empty list
InSync(f, ts) ==
    IF f.exists THEN f.valid /\ json_load(f.content) = ts ELSE ts = <<>>

\* C13: loading the file that a save has written gives the saved list, the
\* empty list included: the same todos in the same order with the same keys
\* and values; and the list a session loads is the one whose save gives the
\* file.
C13_SaveLoadRoundTrip ==
    [][/\ (wrote' /\ file'.valid) => load_todos(file', TRUE) = todos'
       /\ (op' = "__init__" /\ ~has_todos /\ file.exists /\ msgs' = <<>>)
             => save_todos(todos', file, "ok") = file]_vars

C13_Witness ==
    /\ op = "__init__" /\ ret.kind = "loaded" /\ msgs = <<>>
    /\ Len(todos) = 2 /\ todos[1].completed /\ ~todos[2].completed

\* ---- C15 ----
\* C15: the construction loads the list only when the session holds none;
\* the load gives the empty list without a warning when there is no file,
\* and the empty list with a warning when the file cannot be read or does
\* not parse.
C15_LoadOnceOrEmpty ==
    [][op' = "__init__" =>
       \A can_read \in BOOLEAN :
          TodoApp_init(can_read)
              => IF has_todos
                 THEN todos' = todos /\ msgs' = <<>>
                 ELSE /\ ~file.exists => (todos' = <<>> /\ msgs' = <<>>)
                      /\ (file.exists /\ (~can_read \/ ~file.valid))
                            => /\ todos' = <<>>
                               /\ \E i \in 1..Len(msgs') : msgs'[i][1] = "warning"]_vars

C15_Witness ==
    /\ op = "__init__" /\ Reported("warning") /\ todos = <<>>
    /\ file.exists /\ ~file.valid

\* ---- C16 ----
\* C16 as stated: after every user action the file holds the list of the
\* session (no file standing for the empty list).
C16_FileEqualsMemory ==
    (has_todos /\ op \in UserActions) => InSync(file, todos)

\* C16 amended: every user action that saves leaves the file holding the
\* list; a load that reads and parses the file leaves the file holding the
\* list; and once the file holds the list, every user action keeps it so.
\* After a load that failed the file keeps what it had until the first
\* action that changes the list.
C16_FileFollowsMemory ==
    [][/\ (op' \in UserActions /\ wrote') => InSync(file', todos')
       /\ (op' = "__init__" /\ ~has_todos /\ msgs' = <<>>) => InSync(file', todos')
       /\ (op' \in UserActions /\ InSync(file, todos)) => InSync(file', todos')]_vars

C16_Witness ==
    /\ op = "update_priority" /\ wrote /\ Len(todos) = 2 /\ InSync(file, todos)
    /\ todos[1].completed /\ todos[1].priority = "High"

\* ---- C14 ----
FailedOutcomes == AllWriteOutcomes \ {"ok"}

\* C14: when the write of a save fails in add_todo, complete_todo,
\* delete_todo, update_priority or clear_completed, an error is shown, the
\* list keeps the change of the operation, and the operations after it work
\* on that list: get_stats counts it and the next save that succeeds writes
\* it whole.
C14_WriteFailureKeepsChange ==
    [][/\ (op' \in UserActions /\ failures' > failures)
             => \E i \in 1..Len(msgs') : msgs'[i][1] = "error"
       /\ (op' = "add_todo" /\ failures' > failures)
             => /\ Len(todos') = Len(todos) + 1
                /\ SubSeq(todos', 1, Len(todos)) = todos
                /\ ~HasId(todos, todos'[Len(todos')].id)
       /\ (op' = "complete_todo" /\ failures' > failures)
             => \A task_id \in IdInputs, outcome \in FailedOutcomes :
                   complete_todo(task_id, now', outcome)
                       => todos'[find_todo(todos, task_id)].completed
       /\ (op' = "delete_todo" /\ failures' > failures)
             => \A task_id \in IdInputs, outcome \in FailedOutcomes :
                   delete_todo(task_id, outcome)
                       => (~HasId(todos', task_id) /\ Len(todos') < Len(todos))
       /\ (op' = "update_priority" /\ failures' > failures)
             => \A task_id \in IdInputs, p \in Priorities, outcome \in FailedOutcomes :
                   update_priority(task_id, p, outcome)
                       => todos'[find_todo(todos, task_id)].priority = p
       /\ (op' = "clear_completed" /\ failures' > failures)
             => (CompletedIdx(todos') = {} /\ Len(todos') < Len(todos))
       /\ (op' = "get_stats" /\ failures > 0) => ret' = stats(todos)
       /\ (failures > 0 /\ wrote' /\ file'.valid)
             => load_todos(file', TRUE) = todos']_vars

C14_Witness ==
    /\ op = "add_todo" /\ Reported("error") /\ failures > 0
    /\ Len(todos) = 2 /\ file.valid /\ Len(json_load(file.content)) = 1

====
